---- MODULE Spec2Model ----
(***************************************************************************)
(* Model of the Ada-GVAE / Ada-ML-VAE posterior interception               *)
(* (disent/frameworks/semisupervised/adavae.py) and of the training step   *)
(* that calls it (experiment/gin_system.py).                               *)
(*                                                                         *)
(* Numbers.  The tensors hold real numbers.  They are modelled exactly:    *)
(*   - a value that the code obtains by + - * / from the inputs is a       *)
(*     rational <<n, d>> in lowest terms with d > 0;                       *)
(*   - a log-variance is the natural logarithm of a positive rational q    *)
(*     and is written [ln |-> q]; exp() maps [ln |-> q] to q and log()     *)
(*     maps q to [ln |-> q]; the difference of two log-variances is        *)
(*     ln(a) - ln(b) = ln(a / b).                                          *)
(* Floating point rounding, overflow and NaN are outside the model.        *)
(*                                                                         *)
(* Tensors.  A tensor of shape [batch, latent_dim] is a function           *)
(* [1..batch -> [1..latent_dim -> value]].                                 *)
(***************************************************************************)
EXTENDS Integers, Sequences, FiniteSets, TLC

\* ------------------------------------------------------------------------
\* Bounds of the model
\* ------------------------------------------------------------------------

\* largest batch size of an encoded pair of observations
MaxBatch == 2

\* largest number of latent dimensions
MaxDim == 3

\* largest number of elements (batch * latent_dim) of one tensor
MaxCells == 4

\* largest number of intercept_z calls made on one pair of posteriors
MaxCalls == 2

\* values the encoder produces for a mean of the first / second posterior;
\* the deltas depend on the means through (mean2 - mean1)^2 only, and a
\* repeated call starts from first means that an average has made non-zero
Mean1Vals == {0}
Mean2Vals == {0, 5}

\* values the encoder produces for a variance; the logvar is its logarithm
VarVals == {1, 2}

\* ------------------------------------------------------------------------
\* Exact rational arithmetic
\* ------------------------------------------------------------------------

Abs(x) == IF x < 0 THEN -x ELSE x

RECURSIVE Gcd(_, _)
Gcd(a, b) == IF b = 0 THEN a ELSE Gcd(b, a % b)

\* the rational n / d (d # 0) in lowest terms with a positive denominator
Rat(n, d) ==
    LET g == Gcd(Abs(n), Abs(d))
        s == IF d < 0 THEN -1 ELSE 1
    IN  <<(s * n) \div g, (s * d) \div g>>

RInt(i) == <<i, 1>>
RHalf == <<1, 2>>

RAdd(x, y) == Rat(x[1] * y[2] + y[1] * x[2], x[2] * y[2])
RSub(x, y) == Rat(x[1] * y[2] - y[1] * x[2], x[2] * y[2])
RMul(x, y) == Rat(x[1] * y[1], x[2] * y[2])
RDiv(x, y) == Rat(x[1] * y[2], x[2] * y[1])
RRecip(x)  == Rat(x[2], x[1])
RLt(x, y)  == x[1] * y[2] < y[1] * x[2]
RLe(x, y)  == x[1] * y[2] <= y[1] * x[2]

\* ------------------------------------------------------------------------
\* exp, log and arithmetic on logarithms
\* ------------------------------------------------------------------------

\* torch.Tensor.exp on one log-variance
Exp(lv) == lv.ln

\* torch.Tensor.log on one positive value
Log(q) == [ln |-> q]

\* the difference of two logarithms, ln(a) - ln(b) = ln(a / b)
LnSub(x, y) == [ln |-> RDiv(x.ln, y.ln)]

\* the value of ln(q) when it is rational: ln(1) = 0.  ln(q) is irrational
\* for every other positive rational q; the code never produces that case,
\* its only difference of logarithms being ln(v) - ln(v)
LnRat(l) == CASE l.ln = RInt(1) -> RInt(0)

\* a real number r + c * ln(q) with r, c, q rational and q > 0
Real(r, c, q) == [rat |-> r, coef |-> c, arg |-> q]

\* x + y for two reals with the same coefficient: c*ln(a) + c*ln(b) = c*ln(a*b)
RealAdd(x, y) ==
    CASE x.coef = y.coef ->
        Real(RAdd(x.rat, y.rat), x.coef, RMul(x.arg, y.arg))

\* k * x and x + r for rational k, r
RealScale(k, x) == Real(RMul(k, x.rat), RMul(k, x.coef), x.arg)
RealAddRat(x, r) == Real(RAdd(x.rat, r), x.coef, x.arg)

RECURSIVE RSumSeq(_)
RSumSeq(q) == IF q = <<>> THEN RInt(0) ELSE RAdd(Head(q), RSumSeq(Tail(q)))

RECURSIVE RProdSeq(_)
RProdSeq(q) == IF q = <<>> THEN RInt(1) ELSE RMul(Head(q), RProdSeq(Tail(q)))

\* ------------------------------------------------------------------------
\* Tensors of shape [batch, latent_dim]
\* ------------------------------------------------------------------------

\* all tensors with b rows and d columns whose elements are drawn from S
Tensors(b, d, S) == [1..b -> [1..d -> S]]

NumRows(t) == Len(t)
NumCols(t) == Len(t[1])

\* torch.Tensor.shape
Shape(t) == <<NumRows(t), NumCols(t)>>

\* torch broadcasting of element-wise operations: two sizes of a dimension
\* are compatible when they are equal or one of them is 1; the operands are
\* compatible when all their sizes are, and the result takes the larger
\* size in each dimension
CompatibleSizes(ns) == \A a \in ns, b \in ns : a = b \/ a = 1 \/ b = 1
BroadcastSize(ns) == CHOOSE a \in ns : \A b \in ns : b <= a
Broadcastable(shapes) ==
    /\ CompatibleSizes({s[1] : s \in shapes})
    /\ CompatibleSizes({s[2] : s \in shapes})
BroadcastShape(shapes) ==
    <<BroadcastSize({s[1] : s \in shapes}),
      BroadcastSize({s[2] : s \in shapes})>>

\* the element of t that broadcasting uses at position <<b, d>> of the
\* result: a dimension of size 1 is repeated
At(t, b, d) ==
    t[IF NumRows(t) = 1 THEN 1 ELSE b][IF NumCols(t) = 1 THEN 1 ELSE d]

\* the positions of a boolean tensor that hold TRUE, in row-major order
RECURSIVE MaskIdxFrom(_, _, _)
MaskIdxFrom(mask, b, d) ==
    IF b > NumRows(mask) THEN <<>>
    ELSE IF d > NumCols(mask) THEN MaskIdxFrom(mask, b + 1, 1)
    ELSE (IF mask[b][d] THEN <<(<<b, d>>)>> ELSE <<>>)
         \o MaskIdxFrom(mask, b, d + 1)

MaskIdx(mask) == MaskIdxFrom(mask, 1, 1)

\* t[mask] as an expression: the selected elements as a flat sequence
MaskedSelect(t, mask) ==
    LET idx == MaskIdx(mask)
    IN  [i \in 1..Len(idx) |-> t[idx[i][1]][idx[i][2]]]

\* the number of selected positions of mask that precede or are <<b, d>>
MaskPos(mask, b, d) ==
    Cardinality({p \in (1..b) \X (1..NumCols(mask)) :
                    /\ mask[p[1]][p[2]]
                    /\ (p[1] < b \/ p[2] <= d)})

\* MaskedAssign with the selected values written one position late
MaskedAssignShifted(t, mask, vals) ==
    [b \in DOMAIN t |-> [d \in DOMAIN t[b] |->
        IF mask[b][d] THEN vals[(MaskPos(mask, b, d) % Len(vals)) + 1]
                      ELSE t[b][d]]]

\* MaskedAssign that ignores the mask whenever it selects something and
\* fills the unselected positions with the first selected value
MaskedAssignSpill(t, mask, vals) ==
    [b \in DOMAIN t |-> [d \in DOMAIN t[b] |->
        IF mask[b][d] THEN vals[MaskPos(mask, b, d)]
        ELSE IF Len(vals) > 0 THEN vals[1] ELSE t[b][d]]]

\* MaskedAssign that writes into a temporary copy and leaves t as it was
MaskedAssignToCopy(t, mask, vals) == t

\* t[mask] = vals: the tensor t after the selected elements are overwritten,
\* in row-major order, by the flat sequence vals
MaskedAssign(t, mask, vals) ==
    [b \in DOMAIN t |-> [d \in DOMAIN t[b] |->
        IF mask[b][d] THEN vals[MaskPos(mask, b, d)] ELSE t[b][d]]]

\* the largest / smallest element of a row
RowMax(row) ==
    CHOOSE x \in {row[d] : d \in DOMAIN row} :
        \A d \in DOMAIN row : RLe(row[d], x)
RowMin(row) ==
    CHOOSE x \in {row[d] : d \in DOMAIN row} :
        \A d \in DOMAIN row : RLe(x, row[d])

\* ------------------------------------------------------------------------
\* adavae.py: averaging functions
\* Every operation of these functions is element-wise, so each is given
\* for one element and then applied at every position of the tensors.
\* ------------------------------------------------------------------------

\* average_gvae_elem with the sum of the variances left unhalved
average_gvae_elem_sum(mean, logvar, mean2, logvar2) ==
    LET z_var    == Exp(logvar)
        z2_var   == Exp(logvar2)
        ave_var  == RAdd(z_var, z2_var)
        ave_mean == RMul(RAdd(mean, mean2), RHalf)
    IN  <<ave_mean, Log(ave_var)>>

\* average_gvae_elem that keeps the mean of the first posterior
average_gvae_elem_first(mean, logvar, mean2, logvar2) ==
    LET z_var    == Exp(logvar)
        z2_var   == Exp(logvar2)
        ave_var  == RMul(RAdd(z_var, z2_var), RHalf)
        ave_mean == mean
    IN  <<ave_mean, Log(ave_var)>>

\* one element of compute_average_gvae: <<ave_mean, ave_var.log()>>
average_gvae_elem(mean, logvar, mean2, logvar2) ==
    LET z_var    == Exp(logvar)
        z2_var   == Exp(logvar2)
        ave_var  == RMul(RAdd(z_var, z2_var), RHalf)
        ave_mean == RMul(RAdd(mean, mean2), RHalf)
    IN  <<ave_mean, Log(ave_var)>>

\* ave_mean is computed from the two means and ave_var from the two
\* logvars, so each has the broadcast shape of its own two operands
compute_average_gvae(z_mean, z_logvar, z2_mean, z2_logvar) ==
    LET sm == BroadcastShape({Shape(z_mean), Shape(z2_mean)})
        sv == BroadcastShape({Shape(z_logvar), Shape(z2_logvar)})
        e(b, d) == average_gvae_elem(At(z_mean, b, d), At(z_logvar, b, d),
                                     At(z2_mean, b, d), At(z2_logvar, b, d))
    IN  << [b \in 1..sm[1] |-> [d \in 1..sm[2] |-> e(b, d)[1]]],
           [b \in 1..sv[1] |-> [d \in 1..sv[2] |-> e(b, d)[2]]] >>

\* average_ml_vae_elem that averages means and variances arithmetically
average_ml_vae_elem_arith(mean, logvar, mean2, logvar2) ==
    LET z_var    == Exp(logvar)
        z2_var   == Exp(logvar2)
        ave_var  == RMul(RAdd(z_var, z2_var), RHalf)
        ave_mean == RMul(RAdd(mean, mean2), RHalf)
    IN  <<ave_mean, Log(ave_var)>>

\* average_ml_vae_elem that returns the summed precision as the variance
average_ml_vae_elem_prec(mean, logvar, mean2, logvar2) ==
    LET z_var     == Exp(logvar)
        z2_var    == Exp(logvar2)
        z_invvar  == RRecip(z_var)
        z2_invvar == RRecip(z2_var)
        ave_var   == RAdd(z_invvar, z2_invvar)
        ave_mean  == RMul(RAdd(RMul(mean, z_invvar), RMul(mean2, z2_invvar)),
                          RRecip(ave_var))
    IN  <<ave_mean, Log(ave_var)>>

\* average_ml_vae_elem with each mean weighted by the other precision
average_ml_vae_elem_swap(mean, logvar, mean2, logvar2) ==
    LET z_var     == Exp(logvar)
        z2_var    == Exp(logvar2)
        z_invvar  == RRecip(z_var)
        z2_invvar == RRecip(z2_var)
        ave_var   == RRecip(RAdd(z_invvar, z2_invvar))
        ave_mean  == RMul(RAdd(RMul(mean, z2_invvar), RMul(mean2, z_invvar)),
                          ave_var)
    IN  <<ave_mean, Log(ave_var)>>

\* one element of compute_average_ml_vae: <<ave_mean, ave_var.log()>>
average_ml_vae_elem(mean, logvar, mean2, logvar2) ==
    LET z_var     == Exp(logvar)
        z2_var    == Exp(logvar2)
        z_invvar  == RRecip(z_var)
        z2_invvar == RRecip(z2_var)
        ave_var   == RRecip(RAdd(z_invvar, z2_invvar))
        ave_mean  == RMul(RAdd(RMul(mean, z_invvar), RMul(mean2, z2_invvar)),
                          ave_var)
    IN  <<ave_mean, Log(ave_var)>>

\* ave_var is computed from the two logvars and has their broadcast shape;
\* ave_mean multiplies the means by the precisions and by ave_var and has
\* the broadcast shape of all four operands
compute_average_ml_vae(z_mean, z_logvar, z2_mean, z2_logvar) ==
    LET sm == BroadcastShape({Shape(z_mean), Shape(z_logvar),
                              Shape(z2_mean), Shape(z2_logvar)})
        sv == BroadcastShape({Shape(z_logvar), Shape(z2_logvar)})
        e(b, d) == average_ml_vae_elem(At(z_mean, b, d), At(z_logvar, b, d),
                                       At(z2_mean, b, d), At(z2_logvar, b, d))
    IN  << [b \in 1..sm[1] |-> [d \in 1..sm[2] |-> e(b, d)[1]]],
           [b \in 1..sv[1] |-> [d \in 1..sv[2] |-> e(b, d)[2]]] >>

\* ------------------------------------------------------------------------
\* adavae.py: helpers
\* ------------------------------------------------------------------------

\* kl_pair_elem without the "- 1" term
kl_pair_elem_no_minus1(mean, logvar, mean2, logvar2) ==
    LET ratio   == RDiv(Exp(logvar), Exp(logvar2))
        diff    == RSub(mean2, mean)
        dist    == RDiv(RMul(diff, diff), Exp(logvar2))
        logdiff == LnRat(LnSub(logvar, logvar))
    IN  RMul(RHalf, RAdd(RAdd(ratio, dist), logdiff))

\* kl_pair_elem with the difference of the means left unsquared
kl_pair_elem_unsquared(mean, logvar, mean2, logvar2) ==
    LET ratio   == RDiv(Exp(logvar), Exp(logvar2))
        diff    == RSub(mean2, mean)
        dist    == RDiv(diff, Exp(logvar2))
        logdiff == LnRat(LnSub(logvar, logvar))
    IN  RMul(RHalf, RAdd(RSub(RAdd(ratio, dist), RInt(1)), logdiff))

\* one element of kl_normal_loss_pair_elements
kl_pair_elem(mean, logvar, mean2, logvar2) ==
    LET ratio   == RDiv(Exp(logvar), Exp(logvar2))
        diff    == RSub(mean2, mean)
        dist    == RDiv(RMul(diff, diff), Exp(logvar2))
        logdiff == LnRat(LnSub(logvar, logvar))
    IN  RMul(RHalf, RAdd(RSub(RAdd(ratio, dist), RInt(1)), logdiff))

\* the result has the broadcast shape of the four operands
kl_normal_loss_pair_elements(z_mean, z_logvar, z2_mean, z2_logvar) ==
    LET s == BroadcastShape({Shape(z_mean), Shape(z_logvar),
                             Shape(z2_mean), Shape(z2_logvar)})
    IN  [b \in 1..s[1] |-> [d \in 1..s[2] |->
            kl_pair_elem(At(z_mean, b, d), At(z_logvar, b, d),
                         At(z2_mean, b, d), At(z2_logvar, b, d))]]

\* kl_thresh_row with the sum of the extremes left unhalved
kl_thresh_row_sum(row) == RAdd(RowMax(row), RowMin(row))

\* one row of estimate_kl_threshold, before the dimension is re-added
kl_thresh_row(row) == RMul(RHalf, RAdd(RowMax(row), RowMin(row)))

\* estimate_kl_threshold with the extremes taken over the entire batch
estimate_kl_threshold_batch(deltas) ==
    LET all == {deltas[b][d] : b \in DOMAIN deltas, d \in DOMAIN deltas[1]}
        hi  == CHOOSE x \in all : \A y \in all : RLe(y, x)
        lo  == CHOOSE x \in all : \A y \in all : RLe(x, y)
    IN  [b \in DOMAIN deltas |-> <<RMul(RHalf, RAdd(hi, lo))>>]

estimate_kl_threshold(deltas) ==
    LET threshs == [b \in DOMAIN deltas |-> kl_thresh_row(deltas[b])]
    IN  [b \in DOMAIN threshs |-> <<threshs[b]>>]

\* BroadcastLt with the comparison reversed
BroadcastGt(t, col) ==
    [b \in DOMAIN t |-> [d \in DOMAIN t[b] |-> RLt(col[b][1], t[b][d])]]

\* BroadcastLt with a non-strict comparison
BroadcastLe(t, col) ==
    [b \in DOMAIN t |-> [d \in DOMAIN t[b] |-> RLe(t[b][d], col[b][1])]]

\* kl_deltas < kl_threshs, the [batch, 1] thresholds broadcast along the row
BroadcastLt(t, col) ==
    [b \in DOMAIN t |-> [d \in DOMAIN t[b] |-> RLt(t[b][d], col[b][1])]]

\* <<kl_deltas, kl_threshs, unchanged_mask>>
estimate_unchanged(z_mean, z_logvar, z2_mean, z2_logvar) ==
    LET deltas  == kl_normal_loss_pair_elements(z_mean, z_logvar,
                                                z2_mean, z2_logvar)
        threshs == estimate_kl_threshold(deltas)
        unchanged_mask == BroadcastLt(deltas, threshs)
    IN  <<deltas, threshs, unchanged_mask>>

\* ------------------------------------------------------------------------
\* State
\* ------------------------------------------------------------------------

VARIABLES
    requested_mode, \* the average_mode argument given to AdaVaeLoss(...)
    average_mode,   \* the key that selected self.compute_average,
                    \*   "unset" before __init__ has run
    beta,           \* self.beta
    z_mean,         \* the four tensors the caller owns; intercept_z
    z_logvar,       \*   overwrites them in place
    z2_mean,
    z2_logvar,
    nargs,          \* number of positional arguments the caller passes to
                    \*   intercept_z after z_mean and z_logvar
    nkwargs,        \* number of keyword arguments the caller passes
    pc,             \* "new": AdaVaeLoss(...) not yet evaluated
                    \* "init_raised": __init__ raised
                    \* "encoded": posteriors produced, not yet intercepted
                    \* "intercepted": intercept_z has returned
                    \* "raised": intercept_z raised
                    \* "step_raised": training_step raised
                    \* "step_done": training_step returned
    calls,          \* number of intercept_z calls made so far
    pre,            \* the values of the four tensors when the last
                    \*   intercept_z call was entered
    prev,           \* the value pre had before the last intercept_z call
    kl_deltas,      \* locals of the last intercept_z call
    kl_threshs,
    ave_mask,
    ave_mu,
    ave_logvar,
    ret,            \* the tuple the last intercept_z call returned, each
                    \*   element the name of the tensor object it refers to
    error,          \* the exception that ended the last operation
    recon,          \* the values bce_loss returned to the last compute_loss
                    \*   call, for the first and the second observation
    loss,           \* the value of 'loss' in the last compute_loss result
    batch,          \* the batch given to the last training_step
    trace           \* calls the last training_step made, in order

\* TripletVae (_supervised__tvae.py)
VARIABLES
    cfg_detach,     \* self.cfg.detach
    cfg_detach_std, \* self.cfg.detach_std
    zs_params,      \* the caller's sequence of Params objects, each with
                    \*   the attributes mean and logvar
    zs_pre,         \* the value zs_params had when hook_intercept_zs was
                    \*   entered
    hook_ret,       \* what hook_intercept_zs returned: the name of the
                    \*   sequence object and the dictionary
    tvae_pc         \* "idle": no TripletVae in use
                    \* "encoded": posteriors produced, hook not yet called
                    \* "intercepted": hook_intercept_zs has returned

\* inplace_evolve (run_04_gen_adversarial_genetic.py)
VARIABLES
    evolve_mask,    \* the boolean tensor mask the caller passes to
                    \*   inplace_evolve, which changes it in place
    p_flip,         \* the arguments p_flip and r_add_remove
    r_add_remove,
    mask_pre,       \* the value mask had when inplace_evolve was entered
    flipped,        \* the value of mask after the random flips of line 81
    branch,         \* the branch taken on line 84: "decrease" or
                    \*   "increase"
    idxs,           \* disable_idxs or enable_idxs, as a set of positions
    evolve_error,   \* the exception that ended inplace_evolve
    evolve_pc       \* "idle": no mask in use
                    \* "ready": inplace_evolve not yet called
                    \* "returned", "raised": how the call ended

\* main (run_04_gen_adversarial_genetic.py)
VARIABLES
    population_size, \* the arguments population_size, keep_best and
    keep_best,       \*   generations
    generations,
    population,      \* the locals of main: a population is a sequence of
    scores,          \*   masks
    best_indices,
    best_population,
    child_indices,
    child_population, \* rows: the masks of the children; base: for every
                      \*   child the row of best_population whose storage
                      \*   it shares, 0 when it has storage of its own
    generation,      \* the loop variable g; 0 before the loop
    evolve_idx,      \* the position the running "for mask in ..." loop
                     \*   has reached
    parents,         \* the population the last completed generation
                     \*   started from
    main_error,      \* the exception that ended main
    main_pc          \* "idle": main not running
                     \* "starting": in the loop of lines 128-129
                     \* "evaluating": at line 136
                     \* "children": in the loop of lines 147-148
                     \* "final": at line 153
                     \* "done": main has returned population, scores
                     \* "raised": main raised

adavae_vars == <<requested_mode, average_mode, beta, z_mean, z_logvar,
                 z2_mean, z2_logvar, nargs, nkwargs, pc, calls, pre, prev,
                 kl_deltas, kl_threshs, ave_mask, ave_mu, ave_logvar, ret,
                 error, recon, loss, batch, trace>>

tvae_vars == <<cfg_detach, cfg_detach_std, zs_params, zs_pre, hook_ret,
               tvae_pc>>

evolve_vars == <<evolve_mask, p_flip, r_add_remove, mask_pre, flipped,
                 branch, idxs, evolve_error, evolve_pc>>

main_vars == <<population_size, keep_best, generations, population, scores,
               best_indices, best_population, child_indices,
               child_population, generation, evolve_idx, parents,
               main_error, main_pc>>

vars == <<adavae_vars, tvae_vars, evolve_vars, main_vars>>

\* the variables of the other programs, which no AdaVaeLoss or VaeSystem
\* operation touches
other_vars == <<tvae_vars, evolve_vars, main_vars>>

\* AdaVaeLoss.AVERAGING_FUNCTIONS
AVERAGING_FUNCTIONS == {"ml-vae", "gvae"}

\* self.compute_average, the function selected by AdaVaeLoss.__init__
compute_average(mode, m1, lv1, m2, lv2) ==
    CASE mode = "ml-vae" -> compute_average_ml_vae(m1, lv1, m2, lv2)
      [] mode = "gvae"   -> compute_average_gvae(m1, lv1, m2, lv2)

\* AdaVaeLoss.required_observations
required_observations == 2

NoLoss == <<>>

NoError == [type |-> "none", at |-> "", info |-> <<>>]
Raise(type, at, info) == [type |-> type, at |-> at, info |-> info]

\* "if average_mode not in AdaVaeLoss.AVERAGING_FUNCTIONS" negated
mode_supported_any(mode) == TRUE

mode_supported(mode) == mode \in AVERAGING_FUNCTIONS

\* AdaVaeLoss(beta, average_mode): super().__init__ stores beta, then the
\* mode is looked up; the KeyError message holds the value and the keys
AdaVaeLoss_init ==
    /\ pc = "new"
    /\ IF mode_supported(requested_mode)
       THEN /\ average_mode' = requested_mode
            /\ pc' = "encoded"
            /\ error' = NoError
       ELSE /\ average_mode' = average_mode
            /\ pc' = "init_raised"
            /\ error' = Raise("KeyError", "adavae.py:96",
                              <<requested_mode, AVERAGING_FUNCTIONS>>)
    /\ UNCHANGED <<requested_mode, beta, z_mean, z_logvar, z2_mean, z2_logvar,
                   nargs, nkwargs, calls, pre, prev, kl_deltas, kl_threshs,
                   ave_mask, ave_mu, ave_logvar, ret, recon, loss, batch,
                   trace>>
    /\ UNCHANGED other_vars

\* "z2_mean, z2_logvar = args" accepting surplus arguments
unpack_args_ok_surplus(n) == n >= 2

\* "z2_mean, z2_logvar = args" succeeds for exactly two values
unpack_args_ok(n) == n = 2

\* "assert not kwargs"
assert_no_kwargs_ok(n) == n = 0

\* the names of the tensor objects that "return z_mean, z_logvar, z2_mean,
\* z2_logvar" hands back: the argument objects themselves
intercept_z_return == <<"z_mean", "z_logvar", "z2_mean", "z2_logvar">>

\* the outcome of a call that raised: no tensor written, nothing returned
intercept_z_raised(err, m1, lv1, m2, lv2) ==
    [error |-> err,
     kl_deltas |-> <<>>, kl_threshs |-> <<>>, ave_mask |-> <<>>,
     ave_mu |-> <<>>, ave_logvar |-> <<>>,
     z_mean |-> m1, z_logvar |-> lv1, z2_mean |-> m2, z2_logvar |-> lv2,
     ret |-> <<>>]

\* intercept_z_assign that builds the results with a broadcasting
\* torch.where(mask, average, input) in place of the masked assignments
intercept_z_assign_where(est, ave, m1, lv1, m2, lv2) ==
    LET Where(a, t) ==
            [b \in DOMAIN est[3] |-> [d \in DOMAIN est[3][b] |->
                IF est[3][b][d] THEN At(a, b, d) ELSE At(t, b, d)]]
    IN  [error |-> NoError,
         kl_deltas |-> est[1], kl_threshs |-> est[2], ave_mask |-> est[3],
         ave_mu |-> ave[1], ave_logvar |-> ave[2],
         z_mean    |-> Where(ave[1], m1),
         z_logvar  |-> Where(ave[2], lv1),
         z2_mean   |-> Where(ave[1], m2),
         z2_logvar |-> Where(ave[2], lv2),
         ret |-> intercept_z_return]

\* lines 113-117 of intercept_z, given the values est = <<kl_deltas,
\* kl_threshs, ave_mask>> and ave = <<ave_mu, ave_logvar>> of lines 108 and
\* 111.  t[mask] raises IndexError unless mask has the shape of t; the two
\* right-hand sides of a line are evaluated first and the two targets are
\* then written from left to right, so a target is written as soon as
\* everything before it has succeeded.
intercept_z_assign(est, ave, m1, lv1, m2, lv2) ==
    LET s    == Shape(est[3])
        rhs  == Shape(ave[1]) = s /\ Shape(ave[2]) = s
        ok1  == rhs /\ Shape(m1) = s
        ok2  == ok1 /\ Shape(lv1) = s
        ok3  == ok2 /\ Shape(m2) = s
        ok4  == ok3 /\ Shape(lv2) = s
    IN  [error |-> IF ok4 THEN NoError
                   ELSE IF ok2 THEN Raise("IndexError", "adavae.py:115", <<>>)
                   ELSE Raise("IndexError", "adavae.py:114", <<>>),
         kl_deltas |-> est[1], kl_threshs |-> est[2], ave_mask |-> est[3],
         ave_mu |-> ave[1], ave_logvar |-> ave[2],
         z_mean    |-> IF ok1 THEN MaskedAssign(m1, est[3],
                                                MaskedSelect(ave[1], est[3]))
                       ELSE m1,
         z_logvar  |-> IF ok2 THEN MaskedAssign(lv1, est[3],
                                                MaskedSelect(ave[2], est[3]))
                       ELSE lv1,
         z2_mean   |-> IF ok3 THEN MaskedAssign(m2, est[3],
                                                MaskedSelect(ave[1], est[3]))
                       ELSE m2,
         z2_logvar |-> IF ok4 THEN MaskedAssign(lv2, est[3],
                                                MaskedSelect(ave[2], est[3]))
                       ELSE lv2,
         ret |-> IF ok4 THEN intercept_z_return ELSE <<>>]

\* lines 107-117 of intercept_z.  The element-wise operations of lines 108
\* and 111 broadcast their operands and raise when the shapes cannot be
\* broadcast.
intercept_z_body(mode, m1, lv1, m2, lv2) ==
    IF ~Broadcastable({Shape(m1), Shape(lv1), Shape(m2), Shape(lv2)})
    THEN intercept_z_raised(Raise("RuntimeError", "adavae.py:108", <<>>),
                            m1, lv1, m2, lv2)
    ELSE CHOOSE r \in
            {intercept_z_assign(est, ave, m1, lv1, m2, lv2) :
                est \in {estimate_unchanged(m1, lv1, m2, lv2)},
                ave \in {compute_average(mode, m1, lv1, m2, lv2)}} : TRUE

\* AdaVaeLoss.intercept_z(z_mean, z_logvar, *args, **kwargs) called with n
\* further positional and k keyword arguments; m2, lv2 are the first two of
\* the further positional arguments
intercept_z_call(mode, n, k, m1, lv1, m2, lv2) ==
    IF ~unpack_args_ok(n)
    THEN intercept_z_raised(Raise("ValueError", "adavae.py:104", <<>>),
                            m1, lv1, m2, lv2)
    ELSE IF ~assert_no_kwargs_ok(k)
    THEN intercept_z_raised(Raise("AssertionError", "adavae.py:105", <<>>),
                            m1, lv1, m2, lv2)
    ELSE intercept_z_body(mode, m1, lv1, m2, lv2)

\* intercept_z_frame that falls back to the default mode after a call
intercept_z_frame_reset ==
    /\ average_mode' = "gvae"
    /\ UNCHANGED <<requested_mode, beta>>

\* intercept_z assigns no attribute of self
intercept_z_frame == UNCHANGED <<requested_mode, average_mode, beta>>

\* a direct call AdaVaeLoss.intercept_z(z_mean, z_logvar, ...) on the
\* caller's tensors
intercept_z ==
    /\ pc \in {"encoded", "intercepted"}
    /\ calls < MaxCalls
    /\ \E r \in {intercept_z_call(average_mode, nargs, nkwargs,
                                  z_mean, z_logvar, z2_mean, z2_logvar)} :
         /\ kl_deltas'  = r.kl_deltas
         /\ kl_threshs' = r.kl_threshs
         /\ ave_mask'   = r.ave_mask
         /\ ave_mu'     = r.ave_mu
         /\ ave_logvar' = r.ave_logvar
         /\ z_mean'     = r.z_mean
         /\ z_logvar'   = r.z_logvar
         /\ z2_mean'    = r.z2_mean
         /\ z2_logvar'  = r.z2_logvar
         /\ ret'        = r.ret
         /\ error'      = r.error
         /\ pc' = IF r.error = NoError THEN "intercepted" ELSE "raised"
    /\ pre' = [z_mean |-> z_mean, z_logvar |-> z_logvar,
               z2_mean |-> z2_mean, z2_logvar |-> z2_logvar]
    /\ prev' = pre
    /\ calls' = calls + 1
    /\ intercept_z_frame
    /\ UNCHANGED <<nargs, nkwargs, recon, loss, batch, trace>>
    /\ UNCHANGED other_vars

\* disent.frameworks.unsupervised.vae.kl_normal_loss: the KL divergence of
\* the posterior from the standard normal prior,
\* 0.5 * (exp(logvar) + mean^2 - 1 - logvar), summed over the latent
\* dimensions and averaged over the batch
kl_normal_loss(mean, logvar) ==
    LET s == BroadcastShape({Shape(mean), Shape(logvar)})
        row(i) == ((i - 1) \div s[2]) + 1
        col(i) == ((i - 1) % s[2]) + 1
        variances == [i \in 1..(s[1] * s[2]) |->
                         Exp(At(logvar, row(i), col(i)))]
        rats == [i \in 1..(s[1] * s[2]) |->
                    RMul(RHalf,
                         RSub(RAdd(variances[i],
                                   RMul(At(mean, row(i), col(i)),
                                        At(mean, row(i), col(i)))),
                              RInt(1)))]
    IN  Real(RDiv(RSumSeq(rats), RInt(s[1])),
             Rat(-1, 2 * s[1]),
             RProdSeq(variances))

\* compute_loss_value with beta scaling the reconstruction losses as well
compute_loss_value_beta_all(b, recon_loss, recon2_loss, m1, lv1, m2, lv2) ==
    RealScale(RHalf,
              RealScale(RInt(b),
                        RealAddRat(RealAdd(kl_normal_loss(m1, lv1),
                                           kl_normal_loss(m2, lv2)),
                                   RAdd(recon_loss, recon2_loss))))

\* lines 129-134 of compute_loss: the value of 'loss', given the two
\* reconstruction losses that bce_loss returned
compute_loss_value(b, recon_loss, recon2_loss, m1, lv1, m2, lv2) ==
    RealScale(RHalf,
              RealAddRat(RealScale(RInt(b), RealAdd(kl_normal_loss(m1, lv1),
                                                    kl_normal_loss(m2, lv2))),
                         RAdd(recon_loss, recon2_loss)))

\* values bce_loss returns for a reconstruction
ReconLossVals == {RInt(0), RInt(3)}

\* a direct call AdaVaeLoss.compute_loss(x, x_recon, z_mean, z_logvar,
\* z_sampled, x2, x2_recon, z2_mean, z2_logvar, z2_sampled) on the caller's
\* posteriors; the observations, reconstructions and samples enter the
\* result through bce_loss only
compute_loss ==
    /\ pc \in {"encoded", "intercepted"}
    /\ loss = NoLoss
    /\ \E recon_loss \in ReconLossVals, recon2_loss \in ReconLossVals :
         /\ recon' = <<recon_loss, recon2_loss>>
         /\ loss' = compute_loss_value(beta, recon_loss, recon2_loss,
                                       z_mean, z_logvar, z2_mean, z2_logvar)
    /\ UNCHANGED <<requested_mode, average_mode, beta, z_mean, z_logvar,
                   z2_mean, z2_logvar, nargs, nkwargs, pc, calls, pre, prev,
                   kl_deltas, kl_threshs, ave_mask, ave_mu, ave_logvar, ret,
                   error, batch, trace>>
    /\ UNCHANGED other_vars

\* the batches offered to training_step: a single tensor whose first
\* dimension has size len, or a list of len observations
Batches == [tensor : BOOLEAN, len : 0..3]

\* len(batch) taken without wrapping a single tensor in a list
len_batch_unwrapped(b) == b.len

\* lines 94-96 of training_step: len(batch) as the assertion reads it,
\* after a batch that is a single tensor has been replaced by [batch]
len_batch(b) == IF b.tensor THEN 1 ELSE b.len

\* n copies of the event e
Repeat(e, n) == [i \in 1..n |-> e]

\* VaeSystem.training_step(batch, batch_idx) with an AdaVaeLoss framework.
\* z_mean, z_logvar and z2_mean, z2_logvar are the pairs encode_gaussian
\* returns for the two observations.  z_params is the list of these pairs
\* and intercept_z(*z_params) passes each pair as one positional argument,
\* so intercept_z is entered with len(z_params) - 2 further arguments.
training_step ==
    /\ pc = "encoded"
    /\ loss = NoLoss
    /\ \E b \in Batches :
         LET n == len_batch(b)
         IN  /\ batch' = b
             /\ IF n # required_observations
                THEN /\ error' = Raise("AssertionError", "gin_system.py:96",
                                       <<>>)
                     /\ trace' = <<>>
                     /\ UNCHANGED <<z_mean, z_logvar, z2_mean, z2_logvar,
                                    calls>>
                ELSE \E r \in {intercept_z_call(average_mode, n - 2, 0,
                                                z_mean, z_logvar,
                                                z2_mean, z2_logvar)} :
                     /\ z_mean'    = r.z_mean
                     /\ z_logvar'  = r.z_logvar
                     /\ z2_mean'   = r.z2_mean
                     /\ z2_logvar' = r.z2_logvar
                     /\ calls' = calls + 1
                     /\ IF r.error # NoError
                        THEN /\ error' = r.error
                             /\ trace' = Repeat("encode_gaussian", n)
                                            \o <<"intercept_z">>
                        \* the four returned tensors are unpacked as if
                        \* they were (mean, logvar) pairs, and compute_loss
                        \* is given one tuple per observation in place of
                        \* its five leading parameters
                        ELSE /\ error' = Raise("TypeError",
                                               "gin_system.py:109", <<>>)
                             /\ trace' = Repeat("encode_gaussian", n)
                                  \o <<"intercept_z">>
                                  \o Repeat("sample_from_latent_distribution",
                                            Len(r.ret))
                                  \o Repeat("decode", Len(r.ret))
                                  \o <<"compute_loss">>
    /\ pc' = "step_raised"
    /\ UNCHANGED <<requested_mode, average_mode, beta, nargs, nkwargs, pre,
                   prev, kl_deltas, kl_threshs, ave_mask, ave_mu, ave_logvar, ret,
                   recon, loss>>
    /\ UNCHANGED other_vars

\* the shapes [batch, latent_dim] of the encoded posteriors
Shapes ==
    {s \in (1..MaxBatch) \X (1..MaxDim) : s[1] * s[2] <= MaxCells}

Mean1Elems  == {RInt(m) : m \in Mean1Vals}
Mean2Elems  == {RInt(m) : m \in Mean2Vals}
LogvarElems == {Log(RInt(v)) : v \in VarVals}

\* no TripletVae in use
TvaeIdle ==
    /\ cfg_detach = FALSE
    /\ cfg_detach_std = "None"
    /\ zs_params = <<>>
    /\ zs_pre = <<>>
    /\ hook_ret = <<>>
    /\ tvae_pc = "idle"

\* main not running
MainIdle ==
    /\ population_size = 0
    /\ keep_best = <<0, 1>>
    /\ generations = 0
    /\ population = <<>>
    /\ scores = <<>>
    /\ best_indices = <<>>
    /\ best_population = <<>>
    /\ child_indices = <<>>
    /\ child_population = [rows |-> <<>>, base |-> <<>>]
    /\ generation = 0
    /\ evolve_idx = 0
    /\ parents = <<>>
    /\ main_error = NoError
    /\ main_pc = "idle"

\* no direct call of inplace_evolve
EvolveNotCalled ==
    /\ evolve_mask = <<>>
    /\ mask_pre = <<>>
    /\ flipped = <<>>
    /\ branch = ""
    /\ idxs = {}
    /\ evolve_error = NoError
    /\ evolve_pc = "idle"

\* no mask in use
EvolveIdle ==
    /\ evolve_mask = <<>>
    /\ p_flip = <<0, 1>>
    /\ r_add_remove = <<0, 1>>
    /\ mask_pre = <<>>
    /\ flipped = <<>>
    /\ branch = ""
    /\ idxs = {}
    /\ evolve_error = NoError
    /\ evolve_pc = "idle"

\* the state shared by all initial states: nothing called yet
InitIdle ==
    /\ TvaeIdle
    /\ EvolveIdle
    /\ MainIdle
    /\ calls = 0
    /\ pre = <<>>
    /\ prev = <<>>
    /\ kl_deltas = <<>>
    /\ kl_threshs = <<>>
    /\ ave_mask = <<>>
    /\ ave_mu = <<>>
    /\ ave_logvar = <<>>
    /\ ret = <<>>
    /\ error = NoError
    /\ recon = <<>>
    /\ loss = NoLoss
    /\ batch = <<>>
    /\ trace = <<>>

\* a constructed AdaVaeLoss (default beta) and a freshly encoded pair of
\* posteriors of a common shape, about to be passed to intercept_z as
\* intercept_z(z_mean, z_logvar, z2_mean, z2_logvar)
Init ==
    /\ requested_mode \in AVERAGING_FUNCTIONS
    /\ average_mode = requested_mode
    /\ beta = 4
    /\ \E s \in Shapes :
         /\ z_mean    \in Tensors(s[1], s[2], Mean1Elems)
         /\ z_logvar  \in Tensors(s[1], s[2], LogvarElems)
         /\ z2_mean   \in Tensors(s[1], s[2], Mean2Elems)
         /\ z2_logvar \in Tensors(s[1], s[2], LogvarElems)
    /\ nargs = 2
    /\ nkwargs = 0
    /\ pc = "encoded"
    /\ InitIdle

Next == intercept_z

Spec == Init /\ [][Next]_vars

\* the values average_mode is given at construction
RequestedModes == AVERAGING_FUNCTIONS \cup {"bogus"}

\* the shape of the posteriors when the instance is used as a whole
ProtocolShape == <<1, 2>>

\* an AdaVaeLoss(beta, average_mode) expression not yet evaluated, a pair of
\* encoded posteriors of one shape, and the number of further positional
\* and keyword arguments with which the caller will call intercept_z
InitProtocol ==
    /\ requested_mode \in RequestedModes
    /\ average_mode = "unset"
    /\ beta \in {1, 4}
    /\ z_mean    \in Tensors(ProtocolShape[1], ProtocolShape[2], Mean1Elems)
    /\ z_logvar  \in Tensors(ProtocolShape[1], ProtocolShape[2], LogvarElems)
    /\ z2_mean   \in Tensors(ProtocolShape[1], ProtocolShape[2], Mean2Elems)
    /\ z2_logvar \in Tensors(ProtocolShape[1], ProtocolShape[2], LogvarElems)
    /\ nargs \in 1..3
    /\ nkwargs \in 0..1
    /\ pc = "new"
    /\ InitIdle

NextProtocol ==
    \/ AdaVaeLoss_init
    \/ intercept_z
    \/ compute_loss
    \/ training_step

SpecProtocol == InitProtocol /\ [][NextProtocol]_vars

\* the shapes of the four tensors when they are not required to agree
AnyShapes == {<<1, 1>>, <<1, 2>>, <<1, 3>>, <<2, 1>>}

\* a constructed AdaVaeLoss and four tensors of any shapes, about to be
\* passed to intercept_z as intercept_z(z_mean, z_logvar, z2_mean, z2_logvar)
InitShapes ==
    /\ requested_mode \in AVERAGING_FUNCTIONS
    /\ average_mode = requested_mode
    /\ beta = 4
    /\ \E s1 \in AnyShapes : z_mean    \in Tensors(s1[1], s1[2], Mean1Elems)
    /\ \E s2 \in AnyShapes : z_logvar  \in Tensors(s2[1], s2[2], LogvarElems)
    /\ \E s3 \in AnyShapes : z2_mean   \in Tensors(s3[1], s3[2], Mean2Elems)
    /\ \E s4 \in AnyShapes : z2_logvar \in Tensors(s4[1], s4[2], LogvarElems)
    /\ nargs = 2
    /\ nkwargs = 0
    /\ pc = "encoded"
    /\ InitIdle

SpecShapes == InitShapes /\ [][Next]_vars

TypeOK ==
    /\ average_mode \in AVERAGING_FUNCTIONS \cup {"unset"}
    /\ pc \in {"new", "init_raised", "encoded", "intercepted", "raised",
               "step_raised", "step_done"}
    /\ calls \in 0..MaxCalls

\* ------------------------------------------------------------------------
\* TripletVae.hook_intercept_zs (_supervised__tvae.py)
\* ------------------------------------------------------------------------

\* no AdaVaeLoss in use
AdaVaeIdle ==
    /\ requested_mode = "gvae"
    /\ average_mode = "unset"
    /\ beta = 4
    /\ z_mean = <<>>
    /\ z_logvar = <<>>
    /\ z2_mean = <<>>
    /\ z2_logvar = <<>>
    /\ nargs = 0
    /\ nkwargs = 0
    /\ pc = "new"
    /\ calls = 0
    /\ pre = <<>>
    /\ prev = <<>>
    /\ kl_deltas = <<>>
    /\ kl_threshs = <<>>
    /\ ave_mask = <<>>
    /\ ave_mu = <<>>
    /\ ave_logvar = <<>>
    /\ ret = <<>>
    /\ error = NoError
    /\ recon = <<>>
    /\ loss = NoLoss
    /\ batch = <<>>
    /\ trace = <<>>

\* TripletVae.REQUIRED_OBS
REQUIRED_OBS == 3

\* the values of cfg.detach_std: None (the default) or a number
None == "None"
DetachStdVals == {None, RInt(-1), RHalf, RInt(2)}

\* torch.full_like(t, fill_value): a tensor of the shape of t whose every
\* element is fill_value
full_like(t, fill_value) ==
    [i \in DOMAIN t |-> [j \in DOMAIN t[i] |-> fill_value]]

\* the condition without the test of cfg.detach
replace_logvar_any(detach, detach_std) == detach_std # None

\* "self.cfg.detach and (self.cfg.detach_std is not None)"
replace_logvar(detach, detach_std) == detach /\ detach_std # None

\* the loop of hook_intercept_zs: the logvar attribute of every Params
\* object of the sequence is set to a new tensor
hook_intercept_zs_loop(detach_std, zs) ==
    [k \in DOMAIN zs |->
        [zs[k] EXCEPT !.logvar =
            full_like(@, Log(RMul(detach_std, detach_std)))]]

\* TripletVae.hook_intercept_zs(zs_params) on the caller's sequence
hook_intercept_zs ==
    /\ tvae_pc = "encoded"
    /\ zs_params' = IF replace_logvar(cfg_detach, cfg_detach_std)
                    THEN hook_intercept_zs_loop(cfg_detach_std, zs_params)
                    ELSE zs_params
    /\ zs_pre' = zs_params
    /\ hook_ret' = [zs_params |-> "zs_params", logs |-> <<>>]
    /\ tvae_pc' = "intercepted"
    /\ UNCHANGED <<cfg_detach, cfg_detach_std>>
    /\ UNCHANGED <<adavae_vars, evolve_vars, main_vars>>

\* the shapes of the encoded posteriors of a TripletVae
TvaeShapes == {<<1, 1>>, <<1, 2>>}

\* a Params object: a mean and a logvar of one shape
Params ==
    UNION {[mean : Tensors(s[1], s[2], Mean2Elems),
            logvar : Tensors(s[1], s[2], LogvarElems)] : s \in TvaeShapes}

\* a configured TripletVae and a sequence of up to REQUIRED_OBS encoded
\* posteriors, about to be passed to hook_intercept_zs
InitTvae ==
    /\ cfg_detach \in BOOLEAN
    /\ cfg_detach_std \in DetachStdVals
    /\ zs_params \in UNION {[1..n -> Params] : n \in 0..REQUIRED_OBS}
    /\ zs_pre = <<>>
    /\ hook_ret = <<>>
    /\ tvae_pc = "encoded"
    /\ AdaVaeIdle
    /\ EvolveIdle
    /\ MainIdle

NextTvae == hook_intercept_zs

SpecTvae == InitTvae /\ [][NextTvae]_vars

\* ------------------------------------------------------------------------
\* inplace_evolve (run_04_gen_adversarial_genetic.py)
\* A mask is a one-dimensional boolean tensor, here a sequence of booleans;
\* positions are counted from 1.
\* ------------------------------------------------------------------------

\* largest number of elements of a mask
MaxMask == 3

\* values of the arguments p_flip and r_add_remove: 0, the defaults of
\* main (0.05) and larger fractions
PFlipVals == {RInt(0), Rat(1, 20), RInt(1)}
RAddRemoveVals == {Rat(1, 20), RHalf, RInt(1)}

Masks(n) == [1..n -> BOOLEAN]

\* torch.arange(len(mask))[mask]: the positions at which mask is True
arange_masked(m) == {i \in DOMAIN m : m[i]}

\* line 79-80: (p_flip * active) / total
p_flip_active(m, p) ==
    RDiv(RMul(p, RInt(Cardinality(arange_masked(m)))), RInt(Len(m)))

\* line 81: the sets of positions at which "torch.rand(len(mask)) <
\* p_flip_active" can be True; torch.rand draws from [0, 1)
rand_lt(m, p) ==
    IF RLe(p, RInt(0)) THEN {{}}
    ELSE IF RLe(RInt(1), p) THEN {DOMAIN m}
    ELSE SUBSET (DOMAIN m)

\* mask ^= f, for the set f of positions at which the right side is True
ixor(m, f) == [i \in DOMAIN m |-> m[i] # (i \in f)]

\* max(int(n * r), 1) for n >= 0 and r >= 0
choice_size(n, r) ==
    LET x == RMul(RInt(n), r)
        int == x[1] \div x[2]
    IN  IF int > 1 THEN int ELSE 1

\* random_choice_prng(a, size, replace=False): the possible results, as
\* sets of elements of a; there is none when a has fewer than size elements
random_choice_prng(a, size) == {c \in SUBSET a : Cardinality(c) = size}

\* mask[idxs] = value
index_put(m, c, value) == [i \in DOMAIN m |-> IF i \in c THEN value ELSE m[i]]

\* lines 85-88 and 90-93: one branch of inplace_evolve on the flipped mask;
\* both branches take their candidates from torch.arange(len(mask))[mask]
\* (lines 86 and 91)
add_remove(m, r, br) ==
    LET candidates == arange_masked(m)
        size == choice_size(Cardinality(candidates), r)
        line == IF br = "decrease"
                THEN "run_04_gen_adversarial_genetic.py:87"
                ELSE "run_04_gen_adversarial_genetic.py:92"
    IN  IF random_choice_prng(candidates, size) = {}
        THEN {[flipped |-> m, branch |-> br, idxs |-> {}, mask |-> m,
               error |-> Raise("ValueError", line, <<>>)]}
        ELSE {[flipped |-> m, branch |-> br, idxs |-> c,
               mask |-> index_put(m, c, br = "increase"),
               error |-> NoError] :
                 c \in random_choice_prng(candidates, size)}

\* inplace_evolve(mask, p_flip, r_add_remove): the possible outcomes, one
\* for every result of torch.rand, np.random.random and random_choice_prng
inplace_evolve_outcomes(m, p, r) ==
    UNION {add_remove(ixor(m, f), r, br) :
              f \in rand_lt(m, p_flip_active(m, p)),
              br \in {"decrease", "increase"}}

\* a direct call inplace_evolve(mask, p_flip, r_add_remove)
inplace_evolve ==
    /\ evolve_pc = "ready"
    /\ \E o \in inplace_evolve_outcomes(evolve_mask, p_flip, r_add_remove) :
         /\ evolve_mask' = o.mask
         /\ flipped' = o.flipped
         /\ branch' = o.branch
         /\ idxs' = o.idxs
         /\ evolve_error' = o.error
         /\ evolve_pc' = IF o.error = NoError THEN "returned" ELSE "raised"
    /\ mask_pre' = evolve_mask
    /\ UNCHANGED <<p_flip, r_add_remove>>
    /\ UNCHANGED <<adavae_vars, tvae_vars, main_vars>>

\* a mask of 1..MaxMask elements and the two rates, about to be passed to
\* inplace_evolve
InitEvolve ==
    /\ evolve_mask \in UNION {Masks(n) : n \in 1..MaxMask}
    /\ p_flip \in PFlipVals
    /\ r_add_remove \in RAddRemoveVals
    /\ mask_pre = <<>>
    /\ flipped = <<>>
    /\ branch = ""
    /\ idxs = {}
    /\ evolve_error = NoError
    /\ evolve_pc = "ready"
    /\ AdaVaeIdle
    /\ TvaeIdle
    /\ MainIdle

NextEvolve == inplace_evolve

SpecEvolve == InitEvolve /\ [][NextEvolve]_vars

\* ------------------------------------------------------------------------
\* main (run_04_gen_adversarial_genetic.py): the genetic loop.  Positions
\* of a population are counted from 1.
\* ------------------------------------------------------------------------

\* largest number of generations
MaxGenerations == 2

\* values of the arguments of main and of len(gt_data)
PopulationSizes == {3}
KeepBestVals == {Rat(1, 4), Rat(2, 3), RInt(1)}
NumItems == {2}
MainPFlipVals == {Rat(1, 20)}
MainRAddRemoveVals == {Rat(1, 20)}

\* the scores evaluate returns for a mask
ScoreVals == {0, 1}

\* line 124: max(int(keep_best * population_size), 1)
keep_n(kb, ps) ==
    LET x == RMul(kb, RInt(ps))
        int == x[1] \div x[2]
    IN  IF int > 1 THEN int ELSE 1

\* torch.ones(population_size, n, dtype=torch.bool)
ones(ps, n) == [k \in 1..ps |-> [j \in 1..n |-> TRUE]]

\* evaluate_all(population, all_dist_matrices): one score per mask; the
\* distance matrices come from E1.compute_all_factor_dist_matrices and the
\* data set, so every assignment of scores is possible
evaluate_all(pop) == [DOMAIN pop -> ScoreVals]

\* torch.argsort(scores, descending=True): the possible results; equal
\* scores may come in either order
argsort_descending(sc) ==
    {perm \in Permutations(DOMAIN sc) :
        \A a \in DOMAIN sc, b \in DOMAIN sc :
            a < b => sc[perm[a]] >= sc[perm[b]]}

\* seq[:n]
take(seq, n) == SubSeq(seq, 1, IF n < Len(seq) THEN n ELSE Len(seq))

\* t[indices] for a sequence of row positions: a new tensor holding the
\* selected rows
index_rows(t, indices) == [k \in DOMAIN indices |-> t[indices[k]]]

\* np.random.choice(n, size=size, replace=True): the possible results;
\* there is none for a negative size
random_choice(n, size) == [1..size -> 1..n]

\* a child population made of views of the rows of best_population
torch_clone_view(best, indices) ==
    [rows |-> index_rows(best, indices), base |-> indices]

\* torch.clone(best_population[child_indices]): the selected rows in
\* storage of their own
torch_clone(best, indices) ==
    [rows |-> index_rows(best, indices),
     base |-> [k \in DOMAIN indices |-> 0]]

\* the masks and exceptions inplace_evolve can leave behind
evolve_results(m, p, r) ==
    {[mask |-> o.mask, error |-> o.error] :
        o \in inplace_evolve_outcomes(m, p, r)}

\* lines 128-129: one iteration of "for mask in population:
\* inplace_evolve(mask, ...)"; mask is a view of the row of population
evolve_population ==
    /\ main_pc = "starting"
    /\ evolve_idx <= Len(population)
    /\ \E o \in evolve_results(population[evolve_idx], p_flip,
                               r_add_remove) :
         /\ population' = [population EXCEPT ![evolve_idx] = o.mask]
         /\ main_error' = o.error
         /\ IF o.error # NoError
            THEN /\ main_pc' = "raised"
                 /\ UNCHANGED <<evolve_idx, generation>>
            ELSE /\ evolve_idx' = evolve_idx + 1
                 /\ IF evolve_idx = Len(population)
                    THEN /\ main_pc' = "evaluating"
                         /\ generation' = 1
                    ELSE UNCHANGED <<main_pc, generation>>
    /\ UNCHANGED <<population_size, keep_best, generations, scores,
                   best_indices, best_population, child_indices,
                   child_population, parents>>
    /\ UNCHANGED <<p_flip, r_add_remove, evolve_mask, mask_pre, flipped,
                   branch, idxs, evolve_error, evolve_pc>>
    /\ UNCHANGED <<adavae_vars, tvae_vars>>

\* lines 136-146: the population is scored, the keep_n best masks are
\* copied out and the children are copies of randomly chosen best masks
select ==
    /\ main_pc = "evaluating"
    /\ \E sc \in evaluate_all(population) :
       \E perm \in argsort_descending(sc) :
       \E bi \in {take(perm, keep_n(keep_best, population_size))} :
       \E bp \in {index_rows(population, bi)} :
       \E ci \in random_choice(keep_n(keep_best, population_size),
                               population_size
                                  - keep_n(keep_best, population_size)) :
         /\ scores' = sc
         /\ best_indices' = bi
         /\ best_population' = bp
         /\ child_indices' = ci
         /\ child_population' = torch_clone(bp, ci)
    /\ evolve_idx' = 1
    /\ main_pc' = "children"
    /\ UNCHANGED <<population_size, keep_best, generations, population,
                   generation, parents, main_error>>
    /\ UNCHANGED <<evolve_vars, adavae_vars, tvae_vars>>

\* lines 147-148: one iteration of "for child in child_population:
\* inplace_evolve(child, ...)"; the write goes to the storage of the child
evolve_child ==
    /\ main_pc = "children"
    /\ evolve_idx <= Len(child_population.rows)
    /\ \E o \in evolve_results(child_population.rows[evolve_idx], p_flip,
                               r_add_remove) :
         /\ child_population' =
               [child_population EXCEPT !.rows[evolve_idx] = o.mask]
         /\ best_population' =
               IF child_population.base[evolve_idx] = 0
               THEN best_population
               ELSE [best_population EXCEPT
                        ![child_population.base[evolve_idx]] = o.mask]
         /\ main_error' = o.error
         /\ IF o.error # NoError
            THEN /\ main_pc' = "raised"
                 /\ UNCHANGED evolve_idx
            ELSE /\ evolve_idx' = evolve_idx + 1
                 /\ UNCHANGED main_pc
    /\ UNCHANGED <<population_size, keep_best, generations, population,
                   scores, best_indices, child_indices, generation,
                   parents>>
    /\ UNCHANGED <<evolve_vars, adavae_vars, tvae_vars>>

\* line 150 and the loop header of line 132: the new population is the
\* best masks followed by the children
next_generation ==
    /\ main_pc = "children"
    /\ evolve_idx > Len(child_population.rows)
    /\ population' = best_population \o child_population.rows
    /\ parents' = population
    /\ IF generation < generations
       THEN /\ generation' = generation + 1
            /\ main_pc' = "evaluating"
       ELSE /\ generation' = generation
            /\ main_pc' = "final"
    /\ UNCHANGED <<population_size, keep_best, generations, scores,
                   best_indices, best_population, child_indices,
                   child_population, evolve_idx, main_error>>
    /\ UNCHANGED <<evolve_vars, adavae_vars, tvae_vars>>

\* lines 153-156: the last population is scored and returned
final_evaluate ==
    /\ main_pc = "final"
    /\ scores' \in evaluate_all(population)
    /\ main_pc' = "done"
    /\ UNCHANGED <<population_size, keep_best, generations, population,
                   best_indices, best_population, child_indices,
                   child_population, generation, evolve_idx, parents,
                   main_error>>
    /\ UNCHANGED <<evolve_vars, adavae_vars, tvae_vars>>

\* main after line 127: the population is all ones and nothing is evolved
InitMain ==
    /\ population_size \in PopulationSizes
    /\ keep_best \in KeepBestVals
    /\ generations = MaxGenerations
    /\ p_flip \in MainPFlipVals
    /\ r_add_remove \in MainRAddRemoveVals
    /\ \E n \in NumItems : population = ones(population_size, n)
    /\ scores = <<>>
    /\ best_indices = <<>>
    /\ best_population = <<>>
    /\ child_indices = <<>>
    /\ child_population = [rows |-> <<>>, base |-> <<>>]
    /\ generation = 0
    /\ evolve_idx = 1
    /\ parents = <<>>
    /\ main_error = NoError
    /\ main_pc = "starting"
    /\ EvolveNotCalled
    /\ AdaVaeIdle
    /\ TvaeIdle

NextMain ==
    \/ evolve_population
    \/ select
    \/ evolve_child
    \/ next_generation
    \/ final_evaluate

SpecMain == InitMain /\ [][NextMain]_vars

\* ------------------------------------------------------------------------
\* Properties
\* ------------------------------------------------------------------------

\* the positions of a tensor
Cells(t) == (DOMAIN t) \X (DOMAIN t[1])

Returned == pc = "intercepted"

\* the estimate <<kl_deltas, kl_threshs, mask>> and the averaged posterior
\* <<ave_mu, ave_logvar>> of the last call, recomputed from the
\* values the tensors had when the call was entered
PreEst ==
    estimate_unchanged(pre.z_mean, pre.z_logvar, pre.z2_mean, pre.z2_logvar)
PreAve ==
    compute_average(average_mode,
                    pre.z_mean, pre.z_logvar, pre.z2_mean, pre.z2_logvar)

\* C1: after intercept_z, at every position where the unchanged mask of the
\* pre-call inputs is True, the mean of P1' and of P2' both equal the
\* averaged mean of the pre-call inputs, and both logvars equal the averaged
\* logvar.
C1_MaskedAreAveraged ==
    Returned =>
        \A est \in {PreEst} : \A mask \in {est[3]} : \A ave \in {PreAve} :
        \A c \in Cells(z_mean) :
            mask[c[1]][c[2]] =>
                /\ z_mean[c[1]][c[2]]    = ave[1][c[1]][c[2]]
                /\ z2_mean[c[1]][c[2]]   = ave[1][c[1]][c[2]]
                /\ z_logvar[c[1]][c[2]]  = ave[2][c[1]][c[2]]
                /\ z2_logvar[c[1]][c[2]] = ave[2][c[1]][c[2]]

\* a call returned that averaged two positions holding different averages,
\* one of them changing both posteriors
C1_Witness ==
    /\ Returned
    /\ \E est \in {PreEst} : \E mask \in {est[3]} : \E ave \in {PreAve} :
       \E c, e \in Cells(z_mean) :
         /\ mask[c[1]][c[2]] /\ mask[e[1]][e[2]]
         /\ ave[1][c[1]][c[2]] # ave[1][e[1]][e[2]]
         /\ z_mean[c[1]][c[2]] # pre.z_mean[c[1]][c[2]]
         /\ z2_mean[c[1]][c[2]] # pre.z2_mean[c[1]][c[2]]
         /\ z_mean[c[1]][c[2]] = z2_mean[c[1]][c[2]]

\* C2: after intercept_z, at every position where the unchanged mask is
\* False, P1' keeps the mean and logvar of P1 and P2' keeps the mean and
\* logvar of P2.
C2_UnmaskedAreUntouched ==
    Returned =>
        \A est \in {PreEst} : \A mask \in {est[3]} :
        \A c \in Cells(z_mean) :
            ~mask[c[1]][c[2]] =>
                /\ z_mean[c[1]][c[2]]    = pre.z_mean[c[1]][c[2]]
                /\ z_logvar[c[1]][c[2]]  = pre.z_logvar[c[1]][c[2]]
                /\ z2_mean[c[1]][c[2]]   = pre.z2_mean[c[1]][c[2]]
                /\ z2_logvar[c[1]][c[2]] = pre.z2_logvar[c[1]][c[2]]

\* a call returned that averaged one position of a row and left another
\* position of that row, where the two posteriors differ, as it was
C2_Witness ==
    /\ Returned
    /\ \E est \in {PreEst} : \E mask \in {est[3]} : \E ave \in {PreAve} :
       \E c, e \in Cells(z_mean) :
         /\ c[1] = e[1]
         /\ mask[c[1]][c[2]] /\ ~mask[e[1]][e[2]]
         /\ z_mean[e[1]][e[2]] # z2_mean[e[1]][e[2]]
         /\ z_logvar[e[1]][e[2]] # z2_logvar[e[1]][e[2]]
         /\ z_mean[e[1]][e[2]] # ave[1][e[1]][e[2]]

\* ln(q) is irrational for every positive rational q # 1, so r + c * ln(q)
\* equals the rational s exactly when its logarithmic part vanishes and r = s
RealEqRat(x, s) ==
    /\ (x.coef = RInt(0) \/ x.arg = RInt(1))
    /\ x.rat = s

\* 0.5 * (var1/var2 + (mean2 - mean1)^2/var2 - 1 + (logvar2 - logvar1)),
\* the closed form of KL(N(mean1, var1) || N(mean2, var2))
GaussianKl(mean1, logvar1, mean2, logvar2) ==
    LET var1 == Exp(logvar1)
        var2 == Exp(logvar2)
        diff == RSub(mean2, mean1)
        r    == RSub(RAdd(RDiv(var1, var2), RDiv(RMul(diff, diff), var2)),
                     RInt(1))
    IN  Real(RMul(RHalf, r), RHalf, LnSub(logvar2, logvar1).ln)

\* C3: every element of kl_normal_loss_pair_elements equals
\* 0.5 * (var1/var2 + (mean2-mean1)^2/var2 - 1 + (logvar2 - logvar1)), the
\* last term taken from the two different logvars.
C3_KlIsGaussianKl ==
    Returned =>
        \A c \in Cells(kl_deltas) :
            RealEqRat(GaussianKl(pre.z_mean[c[1]][c[2]],
                                 pre.z_logvar[c[1]][c[2]],
                                 pre.z2_mean[c[1]][c[2]],
                                 pre.z2_logvar[c[1]][c[2]]),
                      kl_deltas[c[1]][c[2]])

\* C4: at every element where the two posteriors have the same mean and the
\* same logvar, kl_normal_loss_pair_elements is zero.
C4_IdenticalGivesZero ==
    Returned =>
        \A c \in Cells(kl_deltas) :
            (/\ pre.z_mean[c[1]][c[2]] = pre.z2_mean[c[1]][c[2]]
             /\ pre.z_logvar[c[1]][c[2]] = pre.z2_logvar[c[1]][c[2]])
            => kl_deltas[c[1]][c[2]] = RInt(0)

\* a call returned whose two posteriors were identical at every element,
\* with a variance other than 1 somewhere
C4_Witness ==
    /\ Returned
    /\ pre.z_mean = pre.z2_mean
    /\ pre.z_logvar = pre.z2_logvar
    /\ \E c \in Cells(kl_deltas) : Exp(pre.z_logvar[c[1]][c[2]]) # RInt(1)
    /\ \A c \in Cells(kl_deltas) : kl_deltas[c[1]][c[2]] = RInt(0)

\* C5: the unchanged mask is True at a position exactly when the delta
\* there is strictly less than the threshold of its row; a delta equal to
\* the threshold is marked changed.
C5_MaskIsStrictlyBelow ==
    Returned =>
        \A c \in Cells(kl_deltas) :
            ave_mask[c[1]][c[2]] <=>
                RLt(kl_deltas[c[1]][c[2]], kl_threshs[c[1]][1])

\* a call returned with a row holding a delta below, a delta equal to and a
\* delta above its threshold, the one equal to it marked changed
C5_Witness ==
    /\ Returned
    /\ \E b \in DOMAIN kl_deltas : \E d, e, f \in DOMAIN kl_deltas[b] :
         /\ kl_deltas[b][d] = kl_threshs[b][1]
         /\ ~ave_mask[b][d]
         /\ RLt(kl_deltas[b][e], kl_threshs[b][1]) /\ ave_mask[b][e]
         /\ RLt(kl_threshs[b][1], kl_deltas[b][f]) /\ ~ave_mask[b][f]

\* x is the largest (smallest) delta of row b
IsRowMax(x, b) ==
    /\ \E d \in DOMAIN kl_deltas[b] : kl_deltas[b][d] = x
    /\ \A d \in DOMAIN kl_deltas[b] : RLe(kl_deltas[b][d], x)
IsRowMin(x, b) ==
    /\ \E d \in DOMAIN kl_deltas[b] : kl_deltas[b][d] = x
    /\ \A d \in DOMAIN kl_deltas[b] : RLe(x, kl_deltas[b][d])

\* C6: the threshold of each batch row is 0.5 * (maximum of that row's
\* deltas + minimum of that row's deltas), the extremes taken per row.
C6_ThresholdIsRowMidpoint ==
    Returned =>
        \A b \in DOMAIN kl_deltas :
            \E d, e \in DOMAIN kl_deltas[b] :
                /\ IsRowMax(kl_deltas[b][d], b)
                /\ IsRowMin(kl_deltas[b][e], b)
                /\ RAdd(kl_threshs[b][1], kl_threshs[b][1])
                     = RAdd(kl_deltas[b][d], kl_deltas[b][e])

\* a call returned on a batch of two rows whose extremes differ, so that
\* the two rows have different thresholds
C6_Witness ==
    /\ Returned
    /\ \E b, c \in DOMAIN kl_deltas :
         /\ kl_threshs[b][1] # kl_threshs[c][1]
         /\ \E x \in {kl_deltas[b][d] : d \in DOMAIN kl_deltas[b]} :
              IsRowMax(x, b) /\ ~IsRowMax(x, c)
         /\ \E x \in {kl_deltas[b][d] : d \in DOMAIN kl_deltas[b]} :
              IsRowMin(x, b) /\ ~IsRowMin(x, c)

\* C7: estimate_kl_threshold returns exactly one value per batch row, and
\* that value lies between the row's minimum and maximum delta inclusive.
C7_ThresholdShapeAndRange ==
    Returned =>
        /\ DOMAIN kl_threshs = DOMAIN kl_deltas
        /\ \A b \in DOMAIN kl_deltas :
             /\ DOMAIN kl_threshs[b] = {1}
             /\ \A x \in {kl_deltas[b][d] : d \in DOMAIN kl_deltas[b]} :
                  /\ IsRowMin(x, b) => RLe(x, kl_threshs[b][1])
                  /\ IsRowMax(x, b) => RLe(kl_threshs[b][1], x)

\* a call returned on a batch of two rows of several dimensions, one row
\* with its threshold strictly between its extremes, the minimum negative
C7_Witness ==
    /\ Returned
    /\ Len(kl_deltas) = 2
    /\ Len(kl_deltas[1]) = 2
    /\ \E b \in DOMAIN kl_deltas : \E d, e \in DOMAIN kl_deltas[b] :
         /\ RLt(kl_deltas[b][d], RInt(0))
         /\ RLt(kl_deltas[b][d], kl_threshs[b][1])
         /\ RLt(kl_threshs[b][1], kl_deltas[b][e])

\* C8: compute_average_gvae returns at every element the mean
\* (mean1 + mean2) / 2 and a logvar whose variance is (var1 + var2) / 2.
C8_GvaeIsArithmeticMean ==
    (Returned /\ average_mode = "gvae") =>
        \A c \in Cells(ave_mu) :
            /\ RAdd(ave_mu[c[1]][c[2]], ave_mu[c[1]][c[2]])
                 = RAdd(pre.z_mean[c[1]][c[2]], pre.z2_mean[c[1]][c[2]])
            /\ RAdd(Exp(ave_logvar[c[1]][c[2]]), Exp(ave_logvar[c[1]][c[2]]))
                 = RAdd(Exp(pre.z_logvar[c[1]][c[2]]),
                        Exp(pre.z2_logvar[c[1]][c[2]]))

\* a gvae call returned on an element whose means differ and whose
\* variances differ
C8_Witness ==
    /\ Returned
    /\ average_mode = "gvae"
    /\ \E c \in Cells(ave_mu) :
         /\ pre.z_mean[c[1]][c[2]] # pre.z2_mean[c[1]][c[2]]
         /\ pre.z_logvar[c[1]][c[2]] # pre.z2_logvar[c[1]][c[2]]
         /\ ave_mu[c[1]][c[2]] # pre.z_mean[c[1]][c[2]]
         /\ ave_logvar[c[1]][c[2]] # pre.z_logvar[c[1]][c[2]]

\* C9: the variance returned by compute_average_ml_vae is at every element
\* less than or equal to the smaller of the two input variances.
C9_MlVaeVarianceAtMostMin ==
    (Returned /\ average_mode = "ml-vae") =>
        \A c \in Cells(ave_logvar) :
            /\ RLe(Exp(ave_logvar[c[1]][c[2]]), Exp(pre.z_logvar[c[1]][c[2]]))
            /\ RLe(Exp(ave_logvar[c[1]][c[2]]), Exp(pre.z2_logvar[c[1]][c[2]]))

\* an ml-vae call returned on elements with equal and with different
\* variances
C9_Witness ==
    /\ Returned
    /\ average_mode = "ml-vae"
    /\ \E c, e \in Cells(ave_logvar) :
         /\ pre.z_logvar[c[1]][c[2]] # pre.z2_logvar[c[1]][c[2]]
         /\ pre.z_logvar[e[1]][e[2]] = pre.z2_logvar[e[1]][e[2]]
         /\ RLt(Exp(ave_logvar[c[1]][c[2]]), Exp(pre.z_logvar[c[1]][c[2]]))
         /\ RLt(Exp(ave_logvar[c[1]][c[2]]), Exp(pre.z2_logvar[c[1]][c[2]]))

\* C10: compute_average_ml_vae returns at every element the variance
\* 1 / (1/var1 + 1/var2) and the mean (mean1/var1 + mean2/var2) times that
\* variance.
C10_MlVaeIsPrecisionWeighted ==
    (Returned /\ average_mode = "ml-vae") =>
        \A c \in Cells(ave_mu) :
            \A m1 \in {pre.z_mean[c[1]][c[2]]} :
            \A m2 \in {pre.z2_mean[c[1]][c[2]]} :
            \A v1 \in {Exp(pre.z_logvar[c[1]][c[2]])} :
            \A v2 \in {Exp(pre.z2_logvar[c[1]][c[2]])} :
            \A v \in {Exp(ave_logvar[c[1]][c[2]])} :
                /\ RMul(v, RAdd(RDiv(RInt(1), v1), RDiv(RInt(1), v2)))
                     = RInt(1)
                /\ ave_mu[c[1]][c[2]]
                     = RMul(RAdd(RDiv(m1, v1), RDiv(m2, v2)), v)

\* an ml-vae call returned on an element whose means differ and whose
\* variances differ, the averaged mean lying nearer the mean of the
\* posterior with the smaller variance
C10_Witness ==
    /\ Returned
    /\ average_mode = "ml-vae"
    /\ \E c \in Cells(ave_mu) :
         /\ pre.z_mean[c[1]][c[2]] # pre.z2_mean[c[1]][c[2]]
         /\ RLt(Exp(pre.z_logvar[c[1]][c[2]]), Exp(pre.z2_logvar[c[1]][c[2]]))
         /\ RAdd(ave_mu[c[1]][c[2]], ave_mu[c[1]][c[2]])
              # RAdd(pre.z_mean[c[1]][c[2]], pre.z2_mean[c[1]][c[2]])

\* ------------------------------------------------------------------------
\* C13: two-dimensional example in gvae mode.  Both posteriors have
\* variance 1 in both dimensions, the means agree in the first dimension
\* and differ by 5 in the second.  A call entered with these values computes
\* the deltas 0 and 12.5 and the threshold 6.25, marks the first dimension
\* unchanged and the second changed, and returns mean 0 for both posteriors
\* in the first dimension and the means 0 and 5 in the second.
\* ------------------------------------------------------------------------
C13_Scenario ==
    [z_mean    |-> << <<RInt(0), RInt(0)>> >>,
     z_logvar  |-> << <<Log(RInt(1)), Log(RInt(1))>> >>,
     z2_mean   |-> << <<RInt(0), RInt(5)>> >>,
     z2_logvar |-> << <<Log(RInt(1)), Log(RInt(1))>> >>]

C13_ExampleMask ==
    (Returned /\ average_mode = "gvae" /\ pre = C13_Scenario) =>
        /\ kl_deltas  = << <<RInt(0), Rat(25, 2)>> >>
        /\ kl_threshs = << <<Rat(25, 4)>> >>
        /\ ave_mask   = << <<TRUE, FALSE>> >>
        /\ z_mean     = << <<RInt(0), RInt(0)>> >>
        /\ z2_mean    = << <<RInt(0), RInt(5)>> >>

C13_Witness ==
    /\ Returned
    /\ average_mode = "gvae"
    /\ pre = C13_Scenario
    /\ ave_mask = << <<TRUE, FALSE>> >>
    /\ z2_mean[1][2] = RInt(5)

\* ------------------------------------------------------------------------
\* C19: every delta that a call computes is non-negative, and a delta is 0
\* only where the two posteriors have the same mean and the same logvar.
\* ------------------------------------------------------------------------
C19_DeltasNonNegative ==
    Returned =>
        \A c \in Cells(kl_deltas) :
            /\ RLe(RInt(0), kl_deltas[c[1]][c[2]])
            /\ kl_deltas[c[1]][c[2]] = RInt(0) =>
                  /\ pre.z_mean[c[1]][c[2]] = pre.z2_mean[c[1]][c[2]]
                  /\ pre.z_logvar[c[1]][c[2]] = pre.z2_logvar[c[1]][c[2]]

\* ------------------------------------------------------------------------
\* C16: intercept_z is not idempotent.  In ml-vae mode a second call, made
\* on the posteriors the first call returned, returns posteriors that
\* differ from its input whenever it marks any position unchanged: the
\* averaged variance is strictly smaller than both input variances, so
\* each call on already shared positions shrinks their variance again.
\* ------------------------------------------------------------------------
C16_SecondCallChangesOutput ==
    (Returned /\ calls = 2 /\ average_mode = "ml-vae"
        /\ \E c \in Cells(ave_mask) : ave_mask[c[1]][c[2]]) =>
            <<z_mean, z_logvar, z2_mean, z2_logvar>>
                # <<pre.z_mean, pre.z_logvar, pre.z2_mean, pre.z2_logvar>>

\* the second call on the two-dimensional example halves the variance of
\* the shared dimension a second time: 1 -> 1/2 -> 1/4
C16_Witness ==
    /\ Returned
    /\ calls = 2
    /\ average_mode = "ml-vae"
    /\ ave_mask = << <<TRUE, FALSE>> >>
    /\ pre.z_logvar[1][1] = Log(Rat(1, 2))
    /\ z_logvar[1][1] = Log(Rat(1, 4))

\* ------------------------------------------------------------------------
\* C12: swapping the two posteriors
\* ------------------------------------------------------------------------

\* the outcome of the last call had it been made with the two posteriors
\* exchanged
PreSwapped ==
    intercept_z_call(average_mode, 2, 0,
                     pre.z2_mean, pre.z2_logvar, pre.z_mean, pre.z_logvar)

\* sw is the outcome of the last call with the posteriors exchanged
ExchangedOutcome(sw) ==
    /\ sw.error = NoError
    /\ sw.ave_mask  = ave_mask
    /\ sw.z_mean    = z2_mean
    /\ sw.z_logvar  = z2_logvar
    /\ sw.z2_mean   = z_mean
    /\ sw.z2_logvar = z_logvar

\* C12 as stated: for every valid pair, the call with the posteriors
\* exchanged computes the same unchanged mask and returns the same outputs
\* with the two posteriors exchanged.
C12_SwapInvariant ==
    Returned => \A sw \in {PreSwapped} : ExchangedOutcome(sw)

\* C12 amended: the same holds for every valid pair whose two logvars are
\* equal at every element.
C12_SwapInvariantEqualLogvar ==
    (Returned /\ pre.z_logvar = pre.z2_logvar) =>
        \A sw \in {PreSwapped} : ExchangedOutcome(sw)

\* a call on posteriors of equal logvar that averaged a position where the
\* two means differ
C12_Witness ==
    /\ Returned
    /\ pre.z_logvar = pre.z2_logvar
    /\ \E c \in Cells(ave_mask) :
         /\ ave_mask[c[1]][c[2]]
         /\ pre.z_mean[c[1]][c[2]] # pre.z2_mean[c[1]][c[2]]

\* ------------------------------------------------------------------------
\* C17: intercept_z overwrites in place.  The tuple it returns refers to the
\* four tensor objects that were passed in, and after the call the
\* caller's own references to them show the averaged values at the masked
\* positions.
\* ------------------------------------------------------------------------

\* the tensor a name refers to
Deref(name) ==
    CASE name = "z_mean"     -> z_mean
      [] name = "z_logvar"   -> z_logvar
      [] name = "z2_mean"    -> z2_mean
      [] name = "z2_logvar"  -> z2_logvar
      [] name = "ave_mu"     -> ave_mu
      [] name = "ave_logvar" -> ave_logvar

\* the references the caller passed as arguments, in argument order
CallerRefs == <<"z_mean", "z_logvar", "z2_mean", "z2_logvar">>

C17_OverwritesInPlace ==
    Returned =>
        /\ ret = CallerRefs
        /\ \A c \in Cells(ave_mask) :
             ave_mask[c[1]][c[2]] =>
                /\ Deref(CallerRefs[1])[c[1]][c[2]] = ave_mu[c[1]][c[2]]
                /\ Deref(CallerRefs[2])[c[1]][c[2]] = ave_logvar[c[1]][c[2]]
                /\ Deref(CallerRefs[3])[c[1]][c[2]] = ave_mu[c[1]][c[2]]
                /\ Deref(CallerRefs[4])[c[1]][c[2]] = ave_logvar[c[1]][c[2]]

\* a call returned after which the caller's reference to the first mean no
\* longer shows the value it had before the call
C17_Witness ==
    /\ Returned
    /\ ret = CallerRefs
    /\ \E c \in Cells(ave_mask) :
         /\ ave_mask[c[1]][c[2]]
         /\ Deref(CallerRefs[1])[c[1]][c[2]] # pre.z_mean[c[1]][c[2]]
         /\ Deref(CallerRefs[4])[c[1]][c[2]] # pre.z2_logvar[c[1]][c[2]]

\* ------------------------------------------------------------------------
\* C11: an average_mode outside {'gvae', 'ml-vae'} makes the construction
\* fail with an error that names the value and the valid keys, before any
\* batch is processed; a valid mode is accepted, and no later call fails
\* because of the mode.
\* ------------------------------------------------------------------------
C11_ModeCheckedAtConstruction ==
    /\ (pc # "new" /\ requested_mode \notin {"gvae", "ml-vae"}) =>
          /\ pc = "init_raised"
          /\ error.type = "KeyError"
          /\ error.info = <<requested_mode, {"gvae", "ml-vae"}>>
          /\ average_mode = "unset"
          /\ calls = 0 /\ batch = <<>> /\ trace = <<>> /\ loss = NoLoss
    /\ (pc # "new" /\ requested_mode \in {"gvae", "ml-vae"}) =>
          /\ pc # "init_raised"
          /\ average_mode = requested_mode
          /\ error.type # "KeyError"

C11_Witness ==
    /\ pc = "init_raised"
    /\ requested_mode = "bogus"
    /\ error.type = "KeyError"
    /\ error.info[1] = "bogus"

\* ------------------------------------------------------------------------
\* C14: a call whose four tensors do not all have the same shape raises and
\* returns nothing.
\* ------------------------------------------------------------------------
PreShapes ==
    {Shape(pre.z_mean), Shape(pre.z_logvar),
     Shape(pre.z2_mean), Shape(pre.z2_logvar)}

C14_ShapeMismatchRaises ==
    (calls > 0 /\ Cardinality(PreShapes) > 1) =>
        /\ pc = "raised"
        /\ ret = <<>>
        /\ error.type \in {"RuntimeError", "IndexError"}

\* a call raised although its shapes could be broadcast: the second
\* posterior has one latent dimension, the first has two
C14_Witness ==
    /\ pc = "raised"
    /\ error.type = "IndexError"
    /\ Shape(pre.z_mean) = <<1, 2>> /\ Shape(pre.z_logvar) = <<1, 2>>
    /\ Shape(pre.z2_mean) = <<1, 1>> /\ Shape(pre.z2_logvar) = <<1, 1>>
    /\ ret = <<>>

\* ------------------------------------------------------------------------
\* C15: required_observations is 2, and a direct call of intercept_z
\* returns only when it is given exactly two further tensors (the mean and
\* logvar of the second posterior) and no keyword argument; every other
\* call raises and returns nothing.
\* ------------------------------------------------------------------------
C15_ExactlyTwoPosteriors ==
    /\ required_observations = 2
    /\ pc \in {"intercepted", "raised"} =>
          IF nargs = 2 /\ nkwargs = 0
          THEN pc = "intercepted" /\ Len(ret) = 4
          ELSE /\ pc = "raised"
               /\ ret = <<>>
               /\ error.type \in {"ValueError", "AssertionError"}

\* a call with a third posterior's mean appended raised
C15_Witness ==
    /\ pc = "raised"
    /\ nargs = 3
    /\ nkwargs = 0
    /\ error.type = "ValueError"

\* ------------------------------------------------------------------------
\* C18: once constructed, no call changes the averaging mode, and a call of
\* intercept_z whose inputs equal the inputs of the previous call returns
\* what the previous call returned.
\* ------------------------------------------------------------------------
Posteriors ==
    [z_mean |-> z_mean, z_logvar |-> z_logvar,
     z2_mean |-> z2_mean, z2_logvar |-> z2_logvar]

C18_ModeFixedAndStateless ==
    [][pc # "new" =>
         /\ average_mode' = average_mode
         /\ (pc = "intercepted" /\ pc' = "intercepted" /\ calls' = calls + 1
                /\ Posteriors = pre) =>
               /\ Posteriors' = Posteriors
               /\ <<kl_deltas, kl_threshs, ave_mask, ave_mu, ave_logvar, ret>>'
                    = <<kl_deltas, kl_threshs, ave_mask, ave_mu, ave_logvar,
                        ret>>]_vars

\* two calls with equal inputs have returned, in ml-vae mode, with a
\* compute_loss call made on the same instance
C18_Witness ==
    /\ pc = "intercepted"
    /\ calls = 2
    /\ prev = pre
    /\ average_mode = "ml-vae"
    /\ loss # NoLoss

\* ------------------------------------------------------------------------
\* C20: a training step on a batch of required_observations observations
\* encodes every observation, then calls intercept_z once, then samples,
\* decodes and computes the loss, and returns that loss.
\* ------------------------------------------------------------------------
C20_StepReturnsLossInOrder ==
    (pc \in {"step_raised", "step_done"}
        /\ ~batch.tensor /\ batch.len = required_observations) =>
            /\ pc = "step_done"
            /\ error = NoError
            /\ trace = <<"encode_gaussian", "encode_gaussian", "intercept_z",
                         "sample_from_latent_distribution",
                         "sample_from_latent_distribution",
                         "decode", "decode", "compute_loss">>
            /\ loss # NoLoss

\* ------------------------------------------------------------------------
\* C22: the outputs of a call for batch row b depend on row b of the four
\* inputs only: the call made on row b alone computes the same threshold
\* and mask and returns the same four rows.  (For a batch of one row the
\* call on the row alone is the call itself.)
\* ------------------------------------------------------------------------

\* the outcome of the last call had it been given row b of its inputs alone
PreRowAlone(b) ==
    intercept_z_call(average_mode, 2, 0,
                     <<pre.z_mean[b]>>, <<pre.z_logvar[b]>>,
                     <<pre.z2_mean[b]>>, <<pre.z2_logvar[b]>>)

C22_RowsAreIndependent ==
    (Returned /\ NumRows(ave_mask) > 1) =>
        \A b \in DOMAIN ave_mask : \A r \in {PreRowAlone(b)} :
            /\ r.kl_threshs[1] = kl_threshs[b]
            /\ r.ave_mask[1]   = ave_mask[b]
            /\ r.z_mean[1]     = z_mean[b]
            /\ r.z_logvar[1]   = z_logvar[b]
            /\ r.z2_mean[1]    = z2_mean[b]
            /\ r.z2_logvar[1]  = z2_logvar[b]

\* a call returned on a batch of two rows with different thresholds, the
\* first row averaged in one dimension and the second row left as it was
C22_Witness ==
    /\ Returned
    /\ NumRows(ave_mask) = 2 /\ NumCols(ave_mask) = 2
    /\ kl_threshs[1] # kl_threshs[2]
    /\ \E d \in 1..2 : ave_mask[1][d]
    /\ \A d \in 1..2 : ~ave_mask[2][d]
    /\ z_mean[1] # pre.z_mean[1]

\* ------------------------------------------------------------------------
\* C23: in every row the dimensions holding the row's largest delta are
\* never marked unchanged, so no row is averaged in all its dimensions;
\* when the deltas of a row are not all equal, the dimensions holding the
\* row's smallest delta are marked unchanged, so the row is averaged in at
\* least one dimension.
\* ------------------------------------------------------------------------
C23_MaxChangedMinUnchanged ==
    Returned =>
        \A b \in DOMAIN kl_deltas :
            /\ \A d \in DOMAIN kl_deltas[b] :
                 kl_deltas[b][d] = RowMax(kl_deltas[b]) => ~ave_mask[b][d]
            /\ \E d \in DOMAIN kl_deltas[b] : ~ave_mask[b][d]
            /\ RowMin(kl_deltas[b]) # RowMax(kl_deltas[b]) =>
                 /\ \A d \in DOMAIN kl_deltas[b] :
                      kl_deltas[b][d] = RowMin(kl_deltas[b]) => ave_mask[b][d]
                 /\ \E d \in DOMAIN kl_deltas[b] : ave_mask[b][d]

\* a call returned on a row of three different deltas
C23_Witness ==
    /\ Returned
    /\ NumCols(kl_deltas) = 3
    /\ Cardinality({kl_deltas[1][d] : d \in 1..3}) = 3
    /\ \E d \in 1..3 : ave_mask[1][d]
    /\ \E d \in 1..3 : ~ave_mask[1][d]

\* ------------------------------------------------------------------------
\* C24: when all deltas of a row are equal, the mask is False on the whole
\* row and the call returns that row of both posteriors as it was, in
\* either mode.
\* ------------------------------------------------------------------------
C24_EqualDeltasRowUntouched ==
    Returned =>
        \A b \in DOMAIN kl_deltas :
            RowMin(kl_deltas[b]) = RowMax(kl_deltas[b]) =>
                /\ \A d \in DOMAIN ave_mask[b] : ~ave_mask[b][d]
                /\ z_mean[b]    = pre.z_mean[b]
                /\ z_logvar[b]  = pre.z_logvar[b]
                /\ z2_mean[b]   = pre.z2_mean[b]
                /\ z2_logvar[b] = pre.z2_logvar[b]

\* a call returned on a batch whose first row has two equal deltas between
\* different posteriors and whose second row was averaged somewhere
C24_Witness ==
    /\ Returned
    /\ NumRows(kl_deltas) = 2 /\ NumCols(kl_deltas) = 2
    /\ kl_deltas[1][1] = kl_deltas[1][2]
    /\ pre.z_mean[1] # pre.z2_mean[1]
    /\ \E d \in 1..2 : ave_mask[2][d]
    /\ z_mean[1] = pre.z_mean[1]

\* ------------------------------------------------------------------------
\* C26: at an element where the two posteriors are identical,
\* compute_average_gvae returns that mean and variance and
\* compute_average_ml_vae returns that mean and half that variance; and in
\* ml-vae mode every averaged position ends with a variance strictly
\* smaller than both input variances.
\* ------------------------------------------------------------------------
C26_IdenticalElementAverages ==
    Returned =>
        /\ \A g \in {compute_average_gvae(pre.z_mean, pre.z_logvar,
                                          pre.z2_mean, pre.z2_logvar)} :
           \A m \in {compute_average_ml_vae(pre.z_mean, pre.z_logvar,
                                            pre.z2_mean, pre.z2_logvar)} :
           \A c \in Cells(ave_mask) :
              (/\ pre.z_mean[c[1]][c[2]] = pre.z2_mean[c[1]][c[2]]
               /\ pre.z_logvar[c[1]][c[2]] = pre.z2_logvar[c[1]][c[2]]) =>
                  /\ g[1][c[1]][c[2]] = pre.z_mean[c[1]][c[2]]
                  /\ g[2][c[1]][c[2]] = pre.z_logvar[c[1]][c[2]]
                  /\ m[1][c[1]][c[2]] = pre.z_mean[c[1]][c[2]]
                  /\ Exp(m[2][c[1]][c[2]])
                       = RMul(RHalf, Exp(pre.z_logvar[c[1]][c[2]]))
        /\ average_mode = "ml-vae" =>
             \A c \in Cells(ave_mask) :
                ave_mask[c[1]][c[2]] =>
                   /\ RLt(Exp(z_logvar[c[1]][c[2]]),
                          Exp(pre.z_logvar[c[1]][c[2]]))
                   /\ RLt(Exp(z_logvar[c[1]][c[2]]),
                          Exp(pre.z2_logvar[c[1]][c[2]]))
                   /\ z2_logvar[c[1]][c[2]] = z_logvar[c[1]][c[2]]

\* an ml-vae call returned that averaged an element where the posteriors
\* were identical, with a non-zero mean, and halved its variance
C26_Witness ==
    /\ Returned
    /\ average_mode = "ml-vae"
    /\ \E c \in Cells(ave_mask) :
         /\ ave_mask[c[1]][c[2]]
         /\ pre.z_mean[c[1]][c[2]] = pre.z2_mean[c[1]][c[2]]
         /\ pre.z_mean[c[1]][c[2]] # RInt(0)
         /\ pre.z_logvar[c[1]][c[2]] = pre.z2_logvar[c[1]][c[2]]
         /\ Exp(z_logvar[c[1]][c[2]])
              = RMul(RHalf, Exp(pre.z_logvar[c[1]][c[2]]))

\* ------------------------------------------------------------------------
\* C25: when a call of intercept_z raises, the four input tensors still
\* hold the values they had when the call was entered.
\* ------------------------------------------------------------------------
C25_RaiseLeavesInputsUntouched ==
    pc = "raised" => Posteriors = pre

\* ------------------------------------------------------------------------
\* C27: a training step on a batch whose number of observations is not
\* required_observations ends in the assertion failure of its second
\* statement with nothing encoded and no posterior touched, and only such
\* a batch fails there; a batch that is a single tensor is one observation
\* whatever the size of the tensor.
\* ------------------------------------------------------------------------
C27_WrongObservationCountAsserts ==
    pc \in {"step_raised", "step_done"} =>
        IF batch.tensor \/ batch.len # required_observations
        THEN /\ pc = "step_raised"
             /\ error = Raise("AssertionError", "gin_system.py:96", <<>>)
             /\ trace = <<>>
             /\ calls = 0
        ELSE /\ error.at # "gin_system.py:96"
             /\ trace # <<>>

\* a step was rejected for a batch that is one tensor holding
\* required_observations rows
C27_Witness ==
    /\ pc = "step_raised"
    /\ batch.tensor
    /\ batch.len = required_observations
    /\ error.type = "AssertionError"
    /\ trace = <<>>

\* ------------------------------------------------------------------------
\* C21: every compute_loss call yields half the sum of the two
\* reconstruction losses plus beta/2 times the sum of the two KL losses of
\* the posteriors it was given; the call with the two branches exchanged
\* yields the same value, and the call leaves the posteriors as they were.
\* ------------------------------------------------------------------------
HalvedSum(b, recon_loss, recon2_loss, kl_loss, kl2_loss) ==
    RealAddRat(RealScale(RMul(RInt(b), RHalf), RealAdd(kl_loss, kl2_loss)),
               RMul(RHalf, RAdd(recon_loss, recon2_loss)))

C21_LossIsHalvedBetaWeightedSum ==
    [][(loss = NoLoss /\ loss' # NoLoss) =>
          \A kl_loss \in {kl_normal_loss(z_mean, z_logvar)},
             kl2_loss \in {kl_normal_loss(z2_mean, z2_logvar)} :
               /\ loss' = HalvedSum(beta, recon'[1], recon'[2],
                                    kl_loss, kl2_loss)
               /\ loss' = HalvedSum(beta, recon'[2], recon'[1],
                                    kl2_loss, kl_loss)
               /\ Posteriors' = Posteriors]_vars

\* a loss was computed with beta 4 from unequal reconstruction losses and
\* from posteriors that intercept_z had averaged
C21_Witness ==
    /\ loss # NoLoss
    /\ beta = 4
    /\ recon = <<RInt(3), RInt(0)>>
    /\ pc = "intercepted"
    /\ calls = 1
    /\ \E c \in Cells(ave_mask) : ave_mask[c[1]][c[2]]
    /\ loss = HalvedSum(4, RInt(3), RInt(0),
                        kl_normal_loss(z_mean, z_logvar),
                        kl_normal_loss(z2_mean, z2_logvar))

\* ------------------------------------------------------------------------
\* C30: hook_intercept_zs returns the sequence it was given and an empty
\* dictionary; the sequence has the posteriors it had, in the same order
\* and with the same means; when cfg.detach is set and cfg.detach_std is
\* not None every logvar has its former shape and holds
\* log(detach_std^2) everywhere, otherwise every logvar is as it was.
\* ------------------------------------------------------------------------
C30_HookReplacesLogvarOnly ==
    tvae_pc = "intercepted" =>
        /\ hook_ret = [zs_params |-> "zs_params", logs |-> <<>>]
        /\ DOMAIN zs_params = DOMAIN zs_pre
        /\ \A k \in DOMAIN zs_params :
              /\ zs_params[k].mean = zs_pre[k].mean
              /\ IF cfg_detach /\ cfg_detach_std # None
                 THEN /\ Shape(zs_params[k].logvar) = Shape(zs_pre[k].logvar)
                      /\ \A c \in Cells(zs_params[k].logvar) :
                            Exp(zs_params[k].logvar[c[1]][c[2]])
                               = RMul(cfg_detach_std, cfg_detach_std)
                 ELSE zs_params[k].logvar = zs_pre[k].logvar

\* the hook returned after replacing the logvars of three posteriors with
\* log(1/4), one of which had two different elements before
C30_Witness ==
    /\ tvae_pc = "intercepted"
    /\ cfg_detach
    /\ cfg_detach_std = RHalf
    /\ Len(zs_params) = REQUIRED_OBS
    /\ Shape(zs_pre[2].logvar) = <<1, 2>>
    /\ zs_pre[2].logvar[1][1] # zs_pre[2].logvar[1][2]
    /\ zs_params[2].logvar = <<<<Log(Rat(1, 4)), Log(Rat(1, 4))>>>>
    /\ zs_pre[1].mean # zs_pre[3].mean

\* ------------------------------------------------------------------------
\* C28: when inplace_evolve has returned from its increase branch and the
\* mask had an inactive element after the flips, the branch has set at
\* least one inactive element True and left more active elements than it
\* found; when it has returned from its decrease branch, the branch has set
\* at least one active element False.
\* ------------------------------------------------------------------------
C28_BranchesAddAndRemove ==
    evolve_pc = "returned" =>
        /\ (branch = "increase" /\ \E i \in DOMAIN flipped : ~flipped[i]) =>
              /\ \E i \in idxs : ~flipped[i] /\ evolve_mask[i]
              /\ Cardinality(arange_masked(evolve_mask))
                    > Cardinality(arange_masked(flipped))
        /\ branch = "decrease" =>
              \E i \in idxs : flipped[i] /\ ~evolve_mask[i]

\* ------------------------------------------------------------------------
\* C29: while the children of a generation are evolved the kept masks stay
\* what they were when they were selected, and when a generation has ended
\* the population has population_size masks, the first keep_n of which are
\* keep_n different members of the population the generation started
\* from, unmodified and in descending order of score, with no other member
\* of that population scoring higher than any of them.
\* ------------------------------------------------------------------------
C29_KeptParentsAreTheBest ==
    /\ main_pc = "children" =>
          best_population = index_rows(population, best_indices)
    /\ (main_pc \in {"evaluating", "final"} /\ parents # <<>>) =>
          \A n \in {keep_n(keep_best, population_size)} :
             /\ Len(population) = population_size
             /\ Len(parents) = population_size
             /\ Len(best_indices) = n
             /\ \A a \in 1..n, b \in 1..n :
                   /\ a # b => best_indices[a] # best_indices[b]
                   /\ a < b =>
                        scores[best_indices[a]] >= scores[best_indices[b]]
             /\ \A a \in 1..n :
                   /\ population[a] = parents[best_indices[a]]
                   /\ \A j \in DOMAIN parents :
                         (\A b \in 1..n : best_indices[b] # j) =>
                             scores[best_indices[a]] >= scores[j]

\* the second generation is about to start from a population of three whose
\* first two masks are the two best of three parents, which differ from
\* the worst, while the child evolved away from the parent it was copied
\* from
C29_Witness ==
    /\ main_pc = "evaluating"
    /\ generation = 2
    /\ population_size = 3
    /\ keep_n(keep_best, population_size) = 2
    /\ scores = <<0, 1, 1>>
    /\ best_indices = <<3, 2>>
    /\ parents[1] # parents[2]
    /\ parents[2] # parents[3]
    /\ population[1] = parents[3]
    /\ population[2] = parents[2]
    /\ population[3] # best_population[child_indices[1]]

====
